---- MODULE Spec2Model ----
(***************************************************************************)
(* A model of CameraTransform: the projection family (projection.py) and   *)
(* the Camera / CameraGroup composition layer (camera.py).                 *)
(*                                                                         *)
(* Numbers.  numpy computes with IEEE doubles.  The model computes with    *)
(* exact values                                                            *)
(*     [k |-> "fin", n, d, e]   the real  (n / d) * 10^e                   *)
(*     [k |-> "nan"], [k |-> "pinf"], [k |-> "ninf"]   NaN and +-infinity  *)
(*     [k |-> "sym", t |-> <<op, args...>>]   a finite real that is the    *)
(*                    result of a transcendental function (kept as a term) *)
(*     [k |-> "none"]           Python's None                              *)
(* so rounding is not modelled, while division by zero, NaN propagation    *)
(* and the 1e-10 depth threshold are.  Zero is unsigned.                   *)
(***************************************************************************)
EXTENDS Integers, Sequences, FiniteSets, TLC

----------------------------------------------------------------------------
(* Exact arithmetic with NaN and infinities                                *)

Abs(i) == IF i < 0 THEN -i ELSE i

RECURSIVE Gcd(_, _)
Gcd(a, b) == IF b = 0 THEN a ELSE Gcd(b, a % b)

RECURSIVE Pow10(_)
Pow10(j) == IF j = 0 THEN 1 ELSE 10 * Pow10(j - 1)

Mk(kind, n, d, e, t) == [k |-> kind, n |-> n, d |-> d, e |-> e, t |-> t]

Zero == Mk("fin", 0, 1, 0, <<>>)
NaN  == Mk("nan", 0, 1, 0, <<>>)
PInf == Mk("pinf", 0, 1, 0, <<>>)
NInf == Mk("ninf", 0, 1, 0, <<>>)
None == Mk("none", 0, 1, 0, <<>>)
Sym(op, args) == Mk("sym", 0, 1, 0, <<op>> \o args)

RECURSIVE StripD(_, _, _)
StripD(n, d, e) ==
    IF d % 10 = 0 THEN StripD(n, d \div 10, e - 1) ELSE Mk("fin", n, d, e, <<>>)

RECURSIVE StripN(_, _, _)
StripN(n, d, e) ==
    IF n % 10 = 0 THEN StripN(n \div 10, d, e + 1) ELSE StripD(n, d, e)

\* the canonical form of (n / d) * 10^e, d > 0
Rat(n, d, e) ==
    IF n = 0 THEN Zero
    ELSE LET g == Gcd(Abs(n), d) IN StripN(n \div g, d \div g, e)

Int2Num(i) == Rat(i, 1, 0)

IsFin(x) == x.k = "fin"
IsNaN(x) == x.k = "nan"
IsInf(x) == x.k \in {"pinf", "ninf"}
IsZero(x) == x.k = "fin" /\ x.n = 0

\* -1, 0, 1; a symbolic term is used only where its sign is not read
Sign(x) ==
    CASE x.k = "fin"  -> (IF x.n > 0 THEN 1 ELSE IF x.n < 0 THEN -1 ELSE 0)
      [] x.k = "pinf" -> 1
      [] x.k = "ninf" -> -1
      [] OTHER        -> 1

Neg(x) ==
    CASE x.k = "fin"  -> [x EXCEPT !.n = -x.n]
      [] x.k = "pinf" -> NInf
      [] x.k = "ninf" -> PInf
      [] x.k = "sym"  -> Sym("neg", <<x>>)
      [] OTHER        -> x

InfOfSign(s) == IF s > 0 THEN PInf ELSE NInf

Mul(a, b) ==
    CASE IsNaN(a) \/ IsNaN(b) -> NaN
      [] IsInf(a) \/ IsInf(b) ->
            IF IsZero(a) \/ IsZero(b) THEN NaN ELSE InfOfSign(Sign(a) * Sign(b))
      [] IsZero(a) \/ IsZero(b) -> Zero
      [] a.k = "sym" \/ b.k = "sym" -> Sym("mul", <<a, b>>)
      [] OTHER ->
            LET g1 == Gcd(Abs(a.n), b.d)
                g2 == Gcd(Abs(b.n), a.d)
            IN  Rat((a.n \div g1) * (b.n \div g2), (a.d \div g2) * (b.d \div g1), a.e + b.e)

\* numpy's true division: x / 0 is +-inf, 0 / 0 is NaN, never an exception
Div(a, b) ==
    CASE IsNaN(a) \/ IsNaN(b) -> NaN
      [] IsInf(a) -> IF IsInf(b) THEN NaN
                     ELSE InfOfSign(Sign(a) * (IF Sign(b) < 0 THEN -1 ELSE 1))
      [] IsInf(b) -> Zero
      [] IsZero(b) -> IF IsZero(a) THEN NaN ELSE InfOfSign(Sign(a))
      [] IsZero(a) -> Zero
      [] a.k = "sym" \/ b.k = "sym" -> Sym("div", <<a, b>>)
      [] OTHER ->
            LET s  == IF b.n < 0 THEN -1 ELSE 1
                g1 == Gcd(Abs(a.n), Abs(b.n))
                g2 == Gcd(a.d, b.d)
            IN  Rat(s * (a.n \div g1) * (b.d \div g2), (a.d \div g2) * (Abs(b.n) \div g1),
                    a.e - b.e)

Add(a, b) ==
    CASE IsNaN(a) \/ IsNaN(b) -> NaN
      [] IsInf(a) -> IF IsInf(b) /\ a # b THEN NaN ELSE a
      [] IsInf(b) -> b
      [] IsZero(a) -> b
      [] IsZero(b) -> a
      [] a.k = "sym" \/ b.k = "sym" -> Sym("add", <<a, b>>)
      [] OTHER ->
            LET e  == IF a.e < b.e THEN a.e ELSE b.e
                na == a.n * Pow10(a.e - e)
                nb == b.n * Pow10(b.e - e)
                g  == Gcd(a.d, b.d)
            IN  Rat(na * (b.d \div g) + nb * (a.d \div g), (a.d \div g) * b.d, e)

Sub(a, b) == Add(a, Neg(b))

\* x * 10^j < y for positive integers x, y, without forming 10^|j|
RECURSIVE LtScaled(_, _, _)
LtScaled(x, y, j) ==
    IF j = 0 THEN x < y
    ELSE IF j > 0 THEN (IF x >= y THEN FALSE ELSE LtScaled(x * 10, y, j - 1))
    ELSE (IF x < y THEN TRUE ELSE LtScaled(x, y * 10, j + 1))

\* a < b for finite a, b with 0 <= a and 0 < b
LtPos(a, b) == IsZero(a) \/ LtScaled(a.n * b.d, b.n * a.d, a.e - b.e)

\* IEEE comparison: anything compared with NaN is false
Lt(a, b) ==
    CASE IsNaN(a) \/ IsNaN(b) -> FALSE
      [] a.k = "ninf" -> b.k # "ninf"
      [] b.k = "pinf" -> a.k # "pinf"
      [] a.k = "pinf" \/ b.k = "ninf" -> FALSE
      [] Sign(a) < Sign(b) -> TRUE
      [] Sign(a) > Sign(b) -> FALSE
      [] Sign(a) = 0 -> FALSE
      [] Sign(a) > 0 -> LtPos(a, b)
      [] OTHER -> LtPos(Neg(b), Neg(a))

Le(a, b) == Lt(a, b) \/ (a = b /\ ~IsNaN(a))

NumAbs(x) == IF Sign(x) < 0 THEN Neg(x) ELSE x


One == Int2Num(1)
Two == Int2Num(2)

RECURSIVE ISqrtFrom(_, _)
ISqrtFrom(r, n) == IF r * r >= n THEN r ELSE ISqrtFrom(r + 1, n)

\* np.sqrt: exact where the root is rational, a term otherwise
Sqrt(x) ==
    CASE IsNaN(x) -> NaN
      [] x.k = "pinf" -> PInf
      [] x.k = "ninf" -> NaN
      [] x.k = "sym" -> Sym("sqrt", <<x>>)
      [] x.n < 0 -> NaN
      [] x.n = 0 -> Zero
      [] OTHER ->
            LET rn == ISqrtFrom(0, x.n)
                rd == ISqrtFrom(0, x.d)
            IN  IF rn * rn = x.n /\ rd * rd = x.d /\ x.e % 2 = 0
                THEN Rat(rn, rd, x.e \div 2)
                ELSE Sym("sqrt", <<x>>)

\* np.arctan2(a, b): 0 for a = 0 and b > 0, a finite angle otherwise
ArcTan2(a, b) ==
    CASE IsNaN(a) \/ IsNaN(b) -> NaN
      [] IsZero(a) /\ Sign(b) > 0 -> Zero
      [] OTHER -> Sym("arctan2", <<a, b>>)

\* np.arctan
ArcTan(a) ==
    CASE IsNaN(a) -> NaN
      [] IsZero(a) -> Zero
      [] OTHER -> Sym("arctan", <<a>>)

\* np.sin, np.cos, np.tan
Sin(a) == CASE IsNaN(a) \/ IsInf(a) -> NaN [] IsZero(a) -> Zero [] OTHER -> Sym("sin", <<a>>)
Cos(a) == CASE IsNaN(a) \/ IsInf(a) -> NaN [] IsZero(a) -> One [] OTHER -> Sym("cos", <<a>>)
Tan(a) == CASE IsNaN(a) \/ IsInf(a) -> NaN [] IsZero(a) -> Zero [] OTHER -> Sym("tan", <<a>>)

\* np.deg2rad
Deg2Rad(a) == IF IsZero(a) THEN Zero ELSE Sym("deg2rad", <<a>>)

\* np.tan(np.deg2rad(v) / 2): tan(45 degrees) is 1
TanHalfDeg(v) == IF v = Int2Num(90) THEN One ELSE Tan(Div(Deg2Rad(v), Two))

\* np.linalg.norm of a vector given as a sequence
RECURSIVE SumSq(_)
SumSq(v) == IF v = <<>> THEN Zero ELSE Add(Mul(Head(v), Head(v)), SumSq(Tail(v)))

Norm(v) == Sqrt(SumSq(v))

MapSeq(F(_), s) == [i \in 1..Len(s) |-> F(s[i])]

----------------------------------------------------------------------------
(* projection.py                                                            *)

VARIABLES
    proj,       \* projection objects: id -> [variant, raw, derived]
    call        \* the last call made and what it returned

Variants == {"Rectilinear", "Cylindrical", "Equirectangular"}

\* the keyword order of the ParameterSet built by CameraProjection.__init__
IntrinsicNames ==
    <<"focallength_mm", "image_height_px", "image_width_px", "sensor_height_mm",
      "sensor_width_mm">>

Default_focallength_mm == 14
Default_image_height_px == 3456
Default_image_width_px == 4608
Default_sensor_height_mm == Rat(130, 10, 0)
Default_sensor_width_mm == Rat(173, 10, 0)

\* Parameter(value, default=...): a parameter given no value reads as its default
Parameter(value, default) == IF value = None THEN default ELSE value

\* the depth threshold of imageFromCamera
EPS == Rat(1, 1, -10)

\* the class attributes of CameraProjection, read before _initIntrinsicMatrix ran
ClassDerived ==
    [mm_per_px |-> None, focallength_px |-> Zero, offset_x |-> Zero, offset_y |-> Zero]

initIntrinsicMatrixNoOffsetY(raw, old) ==
    LET mm == Div(raw.sensor_width_mm, raw.image_width_px)
    IN  [mm_per_px |-> mm,
         focallength_px |-> Div(raw.focallength_mm, mm),
         offset_x |-> Div(raw.image_width_px, Two),
         offset_y |-> old.offset_y]

\* CameraProjection._initIntrinsicMatrix: the derived intrinsics of the raw ones
initIntrinsicMatrix(raw, old) ==
    LET mm == Div(raw.sensor_width_mm, raw.image_width_px)
    IN  [mm_per_px |-> mm,
         focallength_px |-> Div(raw.focallength_mm, mm),
         offset_x |-> Div(raw.image_width_px, Two),
         offset_y |-> Div(raw.image_height_px, Two)]

\* fieldOfViewToFocallength of the three variants
fieldOfViewToFocallength(variant, raw, view_x, view_y) ==
    LET byTanX == Div(raw.sensor_width_mm, Mul(Two, TanHalfDeg(view_x)))
        byTanY == Div(raw.sensor_height_mm, Mul(Two, TanHalfDeg(view_y)))
        byArcX == Div(raw.sensor_width_mm, Deg2Rad(view_x))
        byArcY == Div(raw.sensor_height_mm, Deg2Rad(view_y))
    IN  CASE variant = "Rectilinear" -> (IF view_x # None THEN byTanX ELSE byTanY)
          [] variant = "Cylindrical" -> (IF view_x # None THEN byArcX ELSE byTanY)
          [] OTHER                   -> (IF view_x # None THEN byArcX ELSE byArcY)

\* CameraProjection.__init__: the parameters with their defaults, the focal length
\* from the field of view when one is given (written before the hooks exist), the
\* hook of every parameter set to _initIntrinsicMatrix, and one explicit call of it
ProjInit(variant, a) ==
    LET sw == IF a.sensor # <<>> THEN a.sensor[1] ELSE a.sensor_width_mm
        sh == IF a.sensor # <<>> THEN a.sensor[2] ELSE a.sensor_height_mm
        iw == IF a.image # <<>> THEN a.image[1] ELSE a.image_width_px
        ih == IF a.image # <<>> THEN a.image[2] ELSE a.image_height_px
        raw0 == [focallength_mm   |-> Parameter(a.focallength_mm, Int2Num(Default_focallength_mm)),
                 image_height_px  |-> Parameter(ih, Int2Num(Default_image_height_px)),
                 image_width_px   |-> Parameter(iw, Int2Num(Default_image_width_px)),
                 sensor_height_mm |-> Parameter(sh, Default_sensor_height_mm),
                 sensor_width_mm  |-> Parameter(sw, Default_sensor_width_mm)]
        raw1 == IF a.view_x_deg # None \/ a.view_y_deg # None
                THEN [raw0 EXCEPT !.focallength_mm =
                        fieldOfViewToFocallength(variant, raw0, a.view_x_deg, a.view_y_deg)]
                ELSE raw0
    IN  [variant |-> variant, raw |-> raw1, derived |-> initIntrinsicMatrix(raw1, ClassDerived)]

\* a write of one parameter of a projection (attribute write, fit write or load):
\* the value is stored and the parameter's hook, _initIntrinsicMatrix, runs
SetIntrinsic(p, name, v) ==
    LET raw == [p.raw EXCEPT ![name] = v]
    IN  [p EXCEPT !.raw = raw, !.derived = initIntrinsicMatrix(raw, p.derived)]


NpAsArray(points) == [data |-> points, shared |-> TRUE]

\* np.array(points): a new array with the caller's values; writes to it do not
\* reach the caller's own array
NpArray(points) == [data |-> points, shared |-> FALSE]

SnapDepthOnly(p) == IF Lt(NumAbs(p[3]), EPS) THEN <<p[1], p[2], Zero>> ELSE p

\* points[np.abs(points[..., 2]) < 1e-10] = 0: the whole row is set to zero
SnapRow(p) == IF Lt(NumAbs(p[3]), EPS) THEN <<Zero, Zero, Zero>> ELSE p

\* transformed_points[points[..., 2] > 0] = np.nan, on the snapped row
BehindRow(p, t) == IF Lt(Zero, p[3]) THEN <<NaN, NaN>> ELSE t

\* RectilinearProjection.imageFromCamera, one row after the snap
RectilinearOf(d, p) ==
    BehindRow(p, <<Add(Div(Mul(p[1], d.focallength_px), p[3]), d.offset_x),
                   Add(Div(Mul(p[2], d.focallength_px), p[3]), d.offset_y)>>)

\* transformed_points[np.isnan(transformed_points[..., 1])] = np.nan
NanRow(u) == IF IsNaN(u[2]) THEN <<NaN, NaN>> ELSE u

\* CylindricalProjection.imageFromCamera, one row after the snap
CylindricalOf(d, p) ==
    NanRow(BehindRow(p,
        <<Add(Mul(d.focallength_px, ArcTan2(Neg(p[1]), Neg(p[3]))), d.offset_x),
          Add(Div(Mul(Neg(d.focallength_px), p[2]), Norm(<<p[1], p[3]>>)), d.offset_y)>>))

\* EquirectangularProjection.imageFromCamera, one row after the snap
EquirectangularOf(d, p) ==
    BehindRow(p,
        <<Add(Mul(d.focallength_px, ArcTan(Div(p[1], p[3]))), d.offset_x),
          Add(Mul(Neg(d.focallength_px), ArcTan(Div(p[2], Norm(<<p[1], p[3]>>)))),
              d.offset_y)>>)

\* imageFromCamera of the three variants, one row after the snap
imageFromCameraOf(variant, d, p) ==
    CASE variant = "Rectilinear" -> RectilinearOf(d, p)
      [] variant = "Cylindrical" -> CylindricalOf(d, p)
      [] OTHER                   -> EquirectangularOf(d, p)

\* imageFromCamera of the three variants, one row
imageFromCameraRow(variant, d, p) == imageFromCameraOf(variant, d, SnapRow(p))

\* imageFromCamera on a batch (a sequence of rows; a single point is one row):
\* what it returns and the caller's array after the call
imageFromCamera(pr, points) ==
    LET arr == NpArray(points)
        own == MapSeq(SnapRow, arr.data)
    IN  [ret    |-> [i \in 1..Len(points) |->
                        imageFromCameraRow(pr.variant, pr.derived, arr.data[i])],
         caller |-> IF arr.shared THEN own ELSE points]

ScaleVec(v, c) == [i \in 1..Len(v) |-> Mul(v[i], c)]
NegVec(v) == [i \in 1..Len(v) |-> Neg(v[i])]
AddVec(u, v) == [i \in 1..Len(u) |-> Add(u[i], v[i])]
SubVec(u, v) == [i \in 1..Len(u) |-> Sub(u[i], v[i])]

\* ray /= np.linalg.norm(ray)
Normed(ray) == LET nn == Norm(ray) IN [i \in 1..Len(ray) |-> Div(ray[i], nn)]

\* the ray of an image point before it is normed and negated; alpha is the
\* horizontal angle of the cylindrical and equirectangular variants
RawRay(variant, d, p, alpha) ==
    CASE variant = "Rectilinear" ->
            <<Sub(p[1], d.offset_x), Sub(p[2], d.offset_y), Add(Zero, d.focallength_px)>>
      [] variant = "Cylindrical" ->
            <<Sin(alpha), Div(Sub(p[2], d.offset_y), d.focallength_px), Cos(alpha)>>
      [] OTHER ->
            <<Sin(alpha), Tan(Div(Sub(p[2], d.offset_y), d.focallength_px)), Cos(alpha)>>

RayOutNotNegated(ray, normed) == IF normed THEN Normed(ray) ELSE ray

\* if normed: ray /= np.linalg.norm(ray); return -ray
RayOut(ray, normed) == NegVec(IF normed THEN Normed(ray) ELSE ray)

\* getRay of the three variants, for one image point
getRay(variant, d, p, normed) ==
    RayOut(RawRay(variant, d, p, Div(Sub(p[1], d.offset_x), d.focallength_px)), normed)
----------------------------------------------------------------------------
(* The orientation (spatial.py): a pose of position and tilt about the x axis  *)

ExtrinsicNames == <<"elevation_m", "tilt_deg", "pos_x_m", "pos_y_m">>

\* cosine and sine of the tilts the model uses
CosDeg(t) ==
    CASE t = Zero -> One
      [] t = Int2Num(90) -> Zero
      [] t = Int2Num(180) -> Int2Num(-1)
      [] OTHER -> Cos(Deg2Rad(t))

SinDeg(t) ==
    CASE t = Zero -> Zero
      [] t = Int2Num(90) -> One
      [] t = Int2Num(180) -> Zero
      [] OTHER -> Sin(Deg2Rad(t))

Position(o) == <<o.pos_x_m, o.pos_y_m, o.elevation_m>>

\* the rotation about the x axis by the tilt, given its cosine and sine
RotateTilt(c, sn, p) ==
    <<p[1], Sub(Mul(c, p[2]), Mul(sn, p[3])), Add(Mul(sn, p[2]), Mul(c, p[3]))>>

\* the inverse rotation
RotateBack(c, sn, q) ==
    <<q[1], Add(Mul(c, q[2]), Mul(sn, q[3])), Sub(Mul(c, q[3]), Mul(sn, q[2]))>>

\* a rotated vector is translated to the camera's position unless it is a direction
Translate(r, o, direction) == IF direction THEN r ELSE AddVec(r, Position(o))

\* camera frame to world frame
spaceFromCamera(o, p, direction) ==
    Translate(RotateTilt(CosDeg(o.tilt_deg), SinDeg(o.tilt_deg), p), o, direction)

\* world frame to camera frame
cameraFromSpace(o, p) ==
    RotateBack(CosDeg(o.tilt_deg), SinDeg(o.tilt_deg), SubVec(p, Position(o)))

----------------------------------------------------------------------------
(* camera.py: Camera                                                          *)

VARIABLES
    orient,         \* orientation objects: id -> its parameters
    map,            \* Camera.map: the cached table, or NoMap
    last_extent,    \* Camera.last_extent
    last_scaling,   \* Camera.last_scaling
    built           \* the arguments of the getMap call that built the cached table

\* a camera is a projection and an orientation
Cam(pr, o) == [projection |-> pr, orientation |-> o]

\* Camera.imageFromSpace, one world point
imageFromSpace(cam, p) ==
    imageFromCamera(cam.projection, <<cameraFromSpace(cam.orientation, p)>>).ret[1]

\* Camera.getRay, one image point: the camera's position and the ray's direction
CameraGetRay(cam, p, normed) ==
    [offset    |-> spaceFromCamera(cam.orientation, <<Zero, Zero, Zero>>, FALSE),
     direction |-> spaceFromCamera(cam.orientation,
                       getRay(cam.projection.variant, cam.projection.derived, p, normed),
                       TRUE)]

FixedIndexYFirst(X, Y, Z) == IF Y # None THEN 2 ELSE IF X # None THEN 1 ELSE 3

\* the axis spaceFromImage fixes: X, else Y, else Z (1, 2, 3)
FixedIndex(X, Y, Z) == IF X # None THEN 1 ELSE IF Y # None THEN 2 ELSE 3

\* points[factor < 0] = np.nan
MaskBehind(factor, pt) == IF Lt(factor, Zero) THEN <<NaN, NaN, NaN>> ELSE pt

\* factor = (given[index] - offset[..., index]) / direction[..., index]
RayFactor(ray, given, index) == Div(Sub(given[index], ray.offset[index]), ray.direction[index])

\* direction * factor + offset, and NaN where the factor is negative
PointOnRay(ray, factor) ==
    MaskBehind(factor, AddVec(ScaleVec(ray.direction, factor), ray.offset))

\* the point of a ray at the distance D, or where the ray meets the fixed plane
RowOnRay(ray, X, Y, Z, D) ==
    PointOnRay(ray, IF D # None THEN D ELSE RayFactor(ray, <<X, Y, Z>>, FixedIndex(X, Y, Z)))

spaceFromImageRowNeverNormed(cam, p, X, Y, Z, D) ==
    RowOnRay(CameraGetRay(cam, p, FALSE), X, Y, Z, D)

\* Camera.spaceFromImage, one image point: the ray is normed when D is given
spaceFromImageRow(cam, p, X, Y, Z, D) ==
    RowOnRay(CameraGetRay(cam, p, D # None), X, Y, Z, D)

\* Camera.spaceFromImage on a batch of image points
spaceFromImage(cam, points, X, Y, Z, D) ==
    [i \in 1..Len(points) |-> spaceFromImageRow(cam, points[i], X, Y, Z, D)]

\* the integer a parameter holds
NumToInt(x) == x.n * Pow10(x.e)

\* range(n) and np.arange(n, 0, -1)
Range(n) == [i \in 1..n |-> Int2Num(i - 1)]
RangeDown(n) == [i \in 1..n |-> Int2Num(n + 1 - i)]

\* the image border walked pixel by pixel: left edge, then y = h, then x = w, then y = 0
BorderPixels(w, h) ==
    [i \in 1..h |-> <<Zero, Range(h)[i]>>]
    \o [i \in 1..w |-> <<Range(w)[i], Int2Num(h)>>]
    \o [i \in 1..h |-> <<Int2Num(w), RangeDown(h)[i]>>]
    \o [i \in 1..w |-> <<RangeDown(w)[i], Zero>>]

\* Camera.getImageBorder(resolution=1)
getImageBorder(cam) ==
    spaceFromImage(cam, BorderPixels(NumToInt(cam.projection.raw.image_width_px),
                                     NumToInt(cam.projection.raw.image_height_px)),
                   None, None, Zero, None)

\* the body of the loop of getCameraCone: a NaN row, the origin and the row the list
\* holds at the index (counted from 0) once those two are appended
AppendSegment(b1, index) == Append(b1, b1[index + 1])

RECURSIVE AppendSegments(_, _, _)
AppendSegments(border, origin, indices) ==
    IF indices = <<>> THEN border
    ELSE AppendSegments(
            AppendSegment(Append(Append(border, <<NaN, NaN, NaN>>), origin), Head(indices)),
            origin, Tail(indices))

\* corner_indices: 0 and the length of the pixel list after each of the four edges
CornerIndices(w, h) == <<0, h, h + w, h + w + h, h + w + h + w>>

\* Camera.getCameraCone
getCameraCone(cam) ==
    AppendSegments(getImageBorder(cam),
                   spaceFromCamera(cam.orientation, <<Zero, Zero, Zero>>, FALSE),
                   CornerIndices(NumToInt(cam.projection.raw.image_width_px),
                                 NumToInt(cam.projection.raw.image_height_px)))

\* np.arange(a, b, step) for a positive step
RECURSIVE Arange(_, _, _)
Arange(a, b, step) ==
    IF IsFin(a) /\ IsFin(b) /\ IsFin(step) /\ Sign(step) > 0 /\ Lt(a, b)
    THEN <<a>> \o Arange(Add(a, step), b, step)
    ELSE <<>>

\* np.nanmin and np.nanmax of a sequence: NaN entries are skipped
NanLess(a, r) == IF IsNaN(a) THEN r ELSE IF IsNaN(r) \/ Lt(a, r) THEN a ELSE r
NanMore(a, r) == IF IsNaN(a) THEN r ELSE IF IsNaN(r) \/ Lt(r, a) THEN a ELSE r

RECURSIVE NanMin(_)
NanMin(v) == IF v = <<>> THEN NaN ELSE NanLess(Head(v), NanMin(Tail(v)))

RECURSIVE NanMax(_)
NanMax(v) == IF v = <<>> THEN NaN ELSE NanMore(Head(v), NanMax(Tail(v)))

Column(rows, c) == [i \in 1..Len(rows) |-> rows[i][c]]

\* Camera.map = None and Camera.last_extent = None
NoMap == <<>>
NoExtent == <<>>

\* Python's == on two scalings, each a number or None
ScalingEq(a, b) == a = b /\ ~IsNaN(a)

\* Python's == on two extents, each a list of four numbers or None
ExtentEq(a, b) ==
    /\ a # NoExtent
    /\ b # NoExtent
    /\ \A i \in 1..4 : a[i] = b[i] /\ ~IsNaN(a[i])

\* the bounding box of a list of ground points
BoundingBox(border) ==
    <<NanMin(Column(border, 1)), NanMax(Column(border, 1)),
      NanMin(Column(border, 2)), NanMax(Column(border, 2))>>

\* the extent of getMap when none is given: that of the image border
BorderExtent(cam) == BoundingBox(getImageBorder(cam))

\* the scaling that gives the table as many cells as the image has pixels
DefaultScaling(cam, extent) ==
    Div(Sqrt(Mul(Sub(extent[2], extent[1]), Sub(extent[4], extent[3]))),
        Sqrt(Mul(cam.projection.raw.image_width_px, cam.projection.raw.image_height_px)))

\* the table over the grid xs, ys with the grid's y axis reversed; table[c][iy][ix]
TableOver(cam, xs, ys) ==
    [c \in 1..2 |->
        [iy \in 1..Len(ys) |->
            [ix \in 1..Len(xs) |->
                imageFromSpace(cam, <<xs[ix], ys[Len(ys) + 1 - iy], Zero>>)[c]]]]

\* the table of getMap: the image coordinates of the grid over the extent
BuildTable(cam, extent, scaling) ==
    TableOver(cam, Arange(extent[1], extent[2], scaling),
              Arange(extent[3], extent[4], scaling))

\* the cache test of getMap
CacheHit(st, extent, scaling) ==
    /\ st.map # NoMap
    /\ ExtentEq(st.last_extent, extent)
    /\ ScalingEq(st.last_scaling, scaling)

\* the scaling getMap uses: the one given, or the default one
EffectiveScaling(cam, extent, scalingArg) ==
    IF scalingArg = None THEN DefaultScaling(cam, extent) ELSE scalingArg

\* getMap once the extent is known: the cached table when the cache test passes,
\* else a new table, stored with the extent and the scaling it was built with
getMapOver(cam, st, extent, scalingArg) ==
    IF CacheHit(st, extent, scalingArg)
    THEN [map |-> st.map, last_extent |-> st.last_extent,
          last_scaling |-> st.last_scaling, hit |-> TRUE]
    ELSE [map |-> BuildTable(cam, extent, EffectiveScaling(cam, extent, scalingArg)),
          last_extent |-> extent,
          last_scaling |-> EffectiveScaling(cam, extent, scalingArg), hit |-> FALSE]

\* Camera.getMap(extent, scaling) on the cache state st: the new cache state (the
\* table it holds is the one returned) and whether the cached table was returned
getMap(cam, st, extentArg, scalingArg) ==
    getMapOver(cam, st, IF extentArg = NoExtent THEN BorderExtent(cam) ELSE extentArg,
               scalingArg)
----------------------------------------------------------------------------
(* camera.py: CameraGroup                                                     *)

VARIABLES
    group           \* the CameraGroup: its two axes, its parameters and its cameras

\* a dict as the sequence of its items in insertion order
DictIndex(d, key) ==
    IF \E i \in 1..Len(d) : d[i].name = key
    THEN CHOOSE i \in 1..Len(d) : d[i].name = key
    ELSE 0

DictHas(d, key) == DictIndex(d, key) # 0

DictGet(d, key) == d[DictIndex(d, key)].ref

\* d[key] = ref
DictSet(d, key, ref) ==
    IF DictHas(d, key)
    THEN [d EXCEPT ![DictIndex(d, key)].ref = ref]
    ELSE Append(d, [name |-> key, ref |-> ref])

\* d.update(other)
RECURSIVE DictUpdate(_, _)
DictUpdate(d, other) ==
    IF other = <<>> THEN d
    ELSE DictUpdate(DictSet(d, Head(other).name, Head(other).ref), Tail(other))

DictNames(d) == {d[i].name : i \in 1..Len(d)}
DictRefs(d) == {d[i].ref : i \in 1..Len(d)}

\* the Parameter objects of an object: one per name, each named by its owner
ParametersOf(id, names) ==
    [i \in 1..Len(names) |-> [name |-> names[i], ref |-> <<id, names[i]>>]]

PrefixedOffByOne(index, name) == "C" \o ToString(index + 1) \o "_" \o name

\* "C%d_%s" % (index, name)
Prefixed(index, name) == "C" \o ToString(index) \o "_" \o name

\* the parameters of a list axis under their prefixed names, element by element
RECURSIVE AddPrefixed(_, _, _, _)
AddPrefixed(params, items, names, index) ==
    IF index >= Len(items) THEN params
    ELSE AddPrefixed(
            DictUpdate(params,
                [i \in 1..Len(names) |->
                    [name |-> Prefixed(index, names[i]),
                     ref  |-> <<items[index + 1], names[i]>>]]),
            items, names, index + 1)

\* the parameters one axis adds: unprefixed for a single instance, prefixed for a list
AxisParameters(params, axis, names) ==
    IF axis.single
    THEN DictUpdate(params, ParametersOf(axis.items[1], names))
    ELSE AddPrefixed(params, axis.items, names, 0)

MinOf(a, b) == IF a < b THEN a ELSE b

RigSizeNeverCycled(pAxis, oAxis) == MinOf(Len(pAxis.items), Len(oAxis.items))

\* zip(projection, orientation_list): a single instance next to a list is cycled,
\* next to a single instance it is a one-element tuple; zip stops at the shorter
RigSize(pAxis, oAxis) ==
    CASE pAxis.single /\ oAxis.single -> 1
      [] pAxis.single -> Len(oAxis.items)
      [] oAxis.single -> Len(pAxis.items)
      [] OTHER -> MinOf(Len(pAxis.items), Len(oAxis.items))

\* CameraGroup.__init__
GroupInit(pAxis, oAxis) ==
    LET params1 == AxisParameters(<<>>, pAxis, IntrinsicNames)
        params2 == AxisParameters(params1, oAxis, ExtrinsicNames)
    IN  [projection_list  |-> pAxis,
         orientation_list |-> oAxis,
         parameters       |-> params2,
         cameras |-> [i \in 1..RigSize(pAxis, oAxis) |->
                        [projection  |-> IF pAxis.single THEN pAxis.items[1]
                                         ELSE pAxis.items[i],
                         orientation |-> IF oAxis.single THEN oAxis.items[1]
                                         ELSE oAxis.items[i]]]]

\* Camera.__init__: the parameters of a camera are those of its two parts
CameraParameters(c) ==
    DictUpdate(DictUpdate(<<>>, ParametersOf(c.projection, IntrinsicNames)),
               ParametersOf(c.orientation, ExtrinsicNames))

\* the camera of the model's objects a rig member stands for
MemberCam(c) == Cam(proj[c.projection], orient[c.orientation])

\* CameraGroup.imagesFromSpace, CameraGroup.__len__, CameraGroup.__getitem__
imagesFromSpace(g, points) ==
    [i \in 1..Len(g.cameras) |->
        [j \in 1..Len(points) |-> imageFromSpace(MemberCam(g.cameras[i]), points[j])]]

GroupLen(g) == Len(g.cameras)

GroupGetItem(g, item) == g.cameras[item + 1]

Dot(u, v) == Add(Add(Mul(u[1], v[1]), Mul(u[2], v[2])), Mul(u[3], v[3]))

Cross(u, v) ==
    <<Sub(Mul(u[2], v[3]), Mul(u[3], v[2])),
      Sub(Mul(u[3], v[1]), Mul(u[1], v[3])),
      Sub(Mul(u[1], v[2]), Mul(u[2], v[1]))>>

Det2(m) == Sub(Mul(m[1][1], m[2][2]), Mul(m[1][2], m[2][1]))

\* np.linalg.solve of a regular 2x2 system
Solve2(m, c) ==
    <<Div(Sub(Mul(c[1], m[2][2]), Mul(m[1][2], c[2])), Det2(m)),
      Div(Sub(Mul(m[1][1], c[2]), Mul(m[2][1], c[1])), Det2(m))>>

\* np.mean([a, b], axis=0)
Mean2(a, b) == [i \in 1..Len(a) |-> Div(Add(a[i], b[i]), Two)]

\* the 2x2 system of one pair of lines
LineSystem(p1, v1, p2, v2) ==
    [m |-> <<<<Dot(v1, v1), Neg(Dot(v2, v1))>>, <<Dot(v1, v2), Neg(Dot(v2, v2))>>>>,
     c |-> <<Neg(Dot(v1, SubVec(p1, p2))), Neg(Dot(v2, SubVec(p1, p2)))>>]

\* np.mean([p1 + res[..., 0] * v1, p2 + res[..., 1] * v2], axis=0)
MeanOfClosest(p1, v1, p2, v2, res) ==
    Mean2(AddVec(p1, ScaleVec(v1, res[1])), AddVec(p2, ScaleVec(v2, res[2])))

SolveSystem(sys) == Solve2(sys.m, sys.c)

\* CameraGroup.intersectionOfTwoLines, v1 and v2 one direction each
intersectionOfTwoLines(p1, v1, p2, v2) ==
    MeanOfClosest(p1, v1, p2, v2, SolveSystem(LineSystem(p1, v1, p2, v2)))

Transpose210(arr, n) == <<<<arr[1][1][n], arr[2][1][n]>>, <<arr[1][2][n], arr[2][2][n]>>>>

\* np.array([[a1, b1], [a2, b2]]).transpose(2, 0, 1)[n]
Transpose201(arr, n) == <<<<arr[1][1][n], arr[1][2][n]>>, <<arr[2][1][n], arr[2][2][n]>>>>

\* np.array([[a1, b1], [a2, b2]]) and np.array([c1, c2]).T of the batch
BatchMatrix(p1, v1, p2, v2) ==
    <<<<[n \in 1..Len(v1) |-> Dot(v1[n], v1[n])],
        [n \in 1..Len(v1) |-> Neg(Dot(v2[n], v1[n]))]>>,
      <<[n \in 1..Len(v1) |-> Dot(v1[n], v2[n])],
        [n \in 1..Len(v1) |-> Neg(Dot(v2[n], v2[n]))]>>>>

BatchRightSide(p1, v1, p2, v2) ==
    [n \in 1..Len(v1) |->
        <<Neg(Dot(v1[n], SubVec(p1, p2))), Neg(Dot(v2[n], SubVec(p1, p2)))>>]

\* np.linalg.solve on the stack of 2x2 systems
SolveBatch(arr, c) == [n \in 1..Len(c) |-> Solve2(Transpose201(arr, n), c[n])]

BatchMeans(p1, v1, p2, v2, res) ==
    [n \in 1..Len(v1) |-> MeanOfClosest(p1, v1[n], p2, v2[n], res[n])]

\* CameraGroup.intersectionOfTwoLines, v1 and v2 arrays of N directions
intersectionOfTwoLinesBatch(p1, v1, p2, v2) ==
    BatchMeans(p1, v1, p2, v2,
               SolveBatch(BatchMatrix(p1, v1, p2, v2), BatchRightSide(p1, v1, p2, v2)))

\* whether np.linalg.solve has a regular system for the pair
Regular(p1, v1, p2, v2) == ~IsZero(Det2(LineSystem(p1, v1, p2, v2).m))

----------------------------------------------------------------------------
(* camera.py: Camera.fit and CameraGroup.fit                                  *)

VARIABLES
    fit             \* the fit in progress: its names, the optimizer's candidates

\* the objects a parameter write acts on
Objects == [proj |-> proj, orient |-> orient]

\* Parameter.value of the parameter object ref = <<owner, name>>
ReadRef(s, ref) ==
    IF ref[1] \in DOMAIN s.proj THEN s.proj[ref[1]].raw[ref[2]] ELSE s.orient[ref[1]][ref[2]]

\* a write of the parameter object ref: the value, then the parameter's hook
WriteRef(s, ref, v) ==
    IF ref[1] \in DOMAIN s.proj
    THEN [s EXCEPT !.proj[ref[1]] = SetIntrinsic(@, ref[2], v)]
    ELSE [s EXCEPT !.orient[ref[1]][ref[2]] = v]

\* ParameterSet.set_fit_parameters(names, values): values written by matching order
RECURSIVE set_fit_parameters(_, _, _, _)
set_fit_parameters(s, params, names, values) ==
    IF names = <<>> \/ values = <<>> THEN s
    ELSE set_fit_parameters(WriteRef(s, DictGet(params, Head(names)), Head(values)),
                            params, Tail(names), Tail(values))

\* the values of the named parameters, in the order of the names
ReadNames(s, params, names) ==
    [i \in 1..Len(names) |-> ReadRef(s, DictGet(params, names[i]))]

\* the parameter objects tagged for fitting, their bounds and their estimates
FitTagged == {<<"P0", "focallength_mm">>, <<"O0", "elevation_m">>, <<"O1", "elevation_m">>}

RangeOf(ref) ==
    IF ref[2] = "focallength_mm" THEN <<Int2Num(2), Int2Num(4)>>
    ELSE <<Int2Num(1), Int2Num(3)>>

DefaultOf(ref) == RangeOf(ref)[1]

\* ParameterSet.get_fit_parameters, get_parameter_ranges, get_parameter_defaults
get_fit_parameters(params) ==
    LET keep(item) == item.ref \in FitTagged
        items == SelectSeq(params, keep)
    IN  [i \in 1..Len(items) |-> items[i].name]

get_parameter_ranges(params, names) ==
    [i \in 1..Len(names) |-> RangeOf(DictGet(params, names[i]))]

get_parameter_defaults(params, names) ==
    [i \in 1..Len(names) |-> DefaultOf(DictGet(params, names[i]))]

\* the vectors the optimizer may try: every component at one of its two bounds
Candidates(ranges) ==
    {p \in [1..Len(ranges) -> {Int2Num(1), Int2Num(2), Int2Num(3), Int2Num(4)}] :
        \A i \in 1..Len(ranges) : p[i] \in {ranges[i][1], ranges[i][2]}}

\* the parameter set fit works on: the camera's own or the group's joint set
FitParameters(owner) ==
    IF owner = "Camera" THEN CameraParameters(group.cameras[1]) ELSE group.parameters

FitIdle ==
    [pc |-> "idle", owner |-> "", names |-> <<>>, ranges |-> <<>>, estimates |-> <<>>,
     tried |-> {}, last |-> <<>>, seen |-> <<>>, costArgs |-> 0, x |-> <<>>]

MaxEvals == 3

\* fit, up to the call of minimize: names, ranges and estimates are read
FitBegin ==
    \E owner \in {"Camera", "CameraGroup"} :
        LET params == FitParameters(owner)
            names == get_fit_parameters(params)
        IN  /\ fit.pc \in {"idle", "done"}
            /\ fit' = [FitIdle EXCEPT !.pc = "minimize", !.owner = owner, !.names = names,
                          !.ranges = get_parameter_ranges(params, names),
                          !.estimates = get_parameter_defaults(params, names)]
            /\ UNCHANGED <<proj, orient, call, map, last_extent, last_scaling, built, group>>

\* cost(p): the candidate is written into the parameters and cost_function() is
\* called, with no argument; it reads the parameters as they are at that moment
Cost(s, params, names, p) ==
    LET s1 == set_fit_parameters(s, params, names, p)
    IN  [objects |-> s1, costArgs |-> 0, seen |-> ReadNames(s1, params, names)]

\* one call of cost by the optimizer: the estimates first, then any candidate
FitCost ==
    /\ fit.pc = "minimize"
    /\ Cardinality(fit.tried) < MaxEvals
    /\ \E p \in Candidates(fit.ranges) :
        LET r == Cost(Objects, FitParameters(fit.owner), fit.names, p)
        IN  /\ fit.tried = {} => p = fit.estimates
            /\ proj' = r.objects.proj
            /\ orient' = r.objects.orient
            /\ fit' = [fit EXCEPT !.tried = @ \cup {p}, !.last = p, !.seen = r.seen,
                                  !.costArgs = r.costArgs]
            /\ UNCHANGED <<call, map, last_extent, last_scaling, built, group>>

WriteBackNothing(s, params, names, x) == s

\* self.parameters.set_fit_parameters(names, p["x"])
WriteBack(s, params, names, x) == set_fit_parameters(s, params, names, x)

\* minimize returns its best vector, one of those it tried, and fit writes it back
FitReturn ==
    /\ fit.pc = "minimize"
    /\ \E x \in fit.tried :
        LET s1 == WriteBack(Objects, FitParameters(fit.owner), fit.names, x)
        IN  /\ proj' = s1.proj
            /\ orient' = s1.orient
            /\ fit' = [fit EXCEPT !.pc = "done", !.x = x]
            /\ UNCHANGED <<call, map, last_extent, last_scaling, built, group>>

----------------------------------------------------------------------------
(* Inputs and bounds                                                          *)

MaxBatch == 2
MaxRig == 2

Triple(x, y, z) == <<x, y, z>>

SeqsUpTo(S, n) == UNION { [1..m -> S] : m \in 1..n }

\* camera-frame points: in front of the camera, on the depth threshold, below
\* it on either side, at depth zero, and behind the camera
CamPoints ==
    { Triple(Zero, Zero, Int2Num(-1000)),
      Triple(Int2Num(3), Int2Num(2), Int2Num(-4)),
      Triple(Zero, Zero, Neg(EPS)),
      Triple(Int2Num(3), Int2Num(2), Rat(-1, 1, -11)),
      Triple(Int2Num(3), Int2Num(2), Rat(1, 1, -11)),
      Triple(Int2Num(3), Int2Num(2), Zero),
      Triple(Int2Num(-3), Int2Num(2), Int2Num(5)) }

\* the rows the three variants must answer with NaN
IsBehind(p) == Le(Zero, p[3]) \/ Lt(NumAbs(p[3]), EPS)

ImagePoints ==
    { <<Zero, Zero>>, <<Int2Num(1), Int2Num(2)>>, <<Int2Num(4), Int2Num(2)>>,
      <<Int2Num(2304), Int2Num(1728)>> }

Scales == { One, Int2Num(3), Rat(1, 2, 0), Rat(1, 1, -10), Rat(1, 1, -11), Rat(1, 1, -14) }

\* the values written to the raw intrinsics: a small camera and the defaults
IntrinsicChoices(name) ==
    CASE name = "focallength_mm"   -> {Int2Num(2), Int2Num(Default_focallength_mm)}
      [] name = "image_height_px"  -> {Int2Num(2), Int2Num(Default_image_height_px)}
      [] name = "image_width_px"   -> {Int2Num(4), Int2Num(Default_image_width_px)}
      [] name = "sensor_height_mm" -> {Int2Num(2), Default_sensor_height_mm}
      [] OTHER                     -> {Int2Num(4), Default_sensor_width_mm}

CtorArgs ==
    [focallength_mm : {None, Int2Num(2)},
     image_width_px : {None}, image_height_px : {None},
     image : {<<>>, <<Int2Num(4), Int2Num(2)>>},
     sensor_width_mm : {None}, sensor_height_mm : {None},
     sensor : {<<>>, <<Int2Num(4), Int2Num(2)>>},
     view_x_deg : {None, Int2Num(90)},
     view_y_deg : {None, Int2Num(90)}]

NoArgs ==
    [focallength_mm |-> None, image_width_px |-> None, image_height_px |-> None,
     image |-> <<>>, sensor_width_mm |-> None, sensor_height_mm |-> None,
     sensor |-> <<>>, view_x_deg |-> None, view_y_deg |-> None]

\* a camera of 4 x 2 pixels
SmallArgs ==
    [NoArgs EXCEPT !.focallength_mm = Int2Num(2), !.image = <<Int2Num(4), Int2Num(2)>>,
                   !.sensor = <<Int2Num(4), Int2Num(2)>>]

\* a camera of 4 x 1 pixels: focallength_px = 2, offset_x = 2, offset_y = 1/2
StripArgs ==
    [NoArgs EXCEPT !.focallength_mm = Int2Num(2), !.image = <<Int2Num(4), Int2Num(1)>>,
                   !.sensor = <<Int2Num(4), Int2Num(1)>>]

\* SpatialOrientation(): above the origin, looking straight down
DefaultOrientation ==
    [elevation_m |-> Int2Num(2), tilt_deg |-> Zero, pos_x_m |-> Zero, pos_y_m |-> Zero]

Single(id) == [single |-> TRUE, items |-> <<id>>]
ListOf(prefix, n) == [single |-> FALSE, items |-> [i \in 1..n |-> prefix \o ToString(i - 1)]]

ProjIds == {"P" \o ToString(i) : i \in 0..(MaxRig - 1)}
OrientIds == {"O" \o ToString(i) : i \in 0..(MaxRig - 1)}

vars == <<proj, call, orient, map, last_extent, last_scaling, built, group, fit>>

NoBuilt == [extent |-> NoExtent, scaling |-> None]

\* the parts of the state a specification does not use
OneProjection(p) == proj = [id \in {"P0"} |-> p]
OneOrientation(o) == orient = [id \in {"O0"} |-> o]
CacheEmpty == map = NoMap /\ last_extent = NoExtent /\ last_scaling = None /\ built = NoBuilt
OneCameraGroup == group = GroupInit(Single("P0"), Single("O0"))
NoFit == fit = FitIdle

TheCamera == Cam(proj["P0"], orient["O0"])

Pending(fn) == call.op = "pending" /\ call.fn = fn

----------------------------------------------------------------------------
(* Construction of a projection and writes of its raw intrinsics              *)

AllIntrinsics == {IntrinsicNames[i] : i \in 1..Len(IntrinsicNames)}

\* projection.<name> = v
WriteIntrinsic ==
    \E name \in AllIntrinsics :
      \E v \in IntrinsicChoices(name) :
        /\ proj' = [proj EXCEPT !["P0"] = SetIntrinsic(@, name, v)]
        /\ call' = [op |-> "write", name |-> name, before |-> proj["P0"].derived]
        /\ UNCHANGED <<orient, map, last_extent, last_scaling, built, group, fit>>

InitIntrinsics ==
    /\ \E v \in Variants, a \in CtorArgs : OneProjection(ProjInit(v, a))
    /\ call = [op |-> "construct"]
    /\ OneOrientation(DefaultOrientation) /\ CacheEmpty /\ OneCameraGroup /\ NoFit

NextIntrinsics == WriteIntrinsic

SpecIntrinsics == InitIntrinsics /\ [][NextIntrinsics]_vars

----------------------------------------------------------------------------
(* Calls of a projection: the inputs are drawn, the call is made              *)

ProjectionCalls ==
    [op : {"pending"}, fn : {"imageFromCamera"}, points : SeqsUpTo(CamPoints, MaxBatch)]
    \cup [op : {"pending"}, fn : {"roundtrip"}, p : ImagePoints, k : Scales]

\* projection.imageFromCamera(points)
CallImageFromCamera ==
    /\ Pending("imageFromCamera")
    /\ LET r == imageFromCamera(proj["P0"], call.points)
       IN  call' = [op |-> "imageFromCamera", points |-> call.points, ret |-> r.ret,
                    caller |-> r.caller]
    /\ UNCHANGED <<proj, orient, map, last_extent, last_scaling, built, group, fit>>

\* projection.imageFromCamera(k * projection.getRay(p))
CallRoundTrip ==
    /\ Pending("roundtrip")
    /\ LET ray == getRay(proj["P0"].variant, proj["P0"].derived, call.p, FALSE)
           r   == imageFromCamera(proj["P0"], <<ScaleVec(ray, call.k)>>)
       IN  call' = [op |-> "roundtrip", p |-> call.p, k |-> call.k, ray |-> ray,
                    ret |-> r.ret[1]]
    /\ UNCHANGED <<proj, orient, map, last_extent, last_scaling, built, group, fit>>

InitProjection ==
    /\ \E v \in Variants, a \in {NoArgs, SmallArgs} : OneProjection(ProjInit(v, a))
    /\ call \in ProjectionCalls
    /\ OneOrientation(DefaultOrientation) /\ CacheEmpty /\ OneCameraGroup /\ NoFit

NextProjection == CallImageFromCamera \/ CallRoundTrip

SpecProjection == InitProjection /\ [][NextProjection]_vars

----------------------------------------------------------------------------
(* Calls of a camera: spaceFromImage and getCameraCone                        *)

Pixels == { <<Zero, Zero>>, <<Int2Num(2), Rat(1, 2, 0)>>, <<Int2Num(3), One>> }

Orientations ==
    [elevation_m : {Zero, Int2Num(2)}, tilt_deg : {Zero, Int2Num(90), Int2Num(180)},
     pos_x_m : {Zero, One}, pos_y_m : {Zero}]

CameraCalls ==
    [op : {"pending"}, fn : {"spaceFromImage"}, points : SeqsUpTo(Pixels, MaxBatch),
     X : {None, Int2Num(5)}, Y : {None, Int2Num(3)}, Z : {Zero, One},
     D : {None, Zero, Int2Num(5), Int2Num(-1)}]
    \cup [op : {"pending"}, fn : {"getCameraCone"}]

\* camera.spaceFromImage(points, X, Y, Z, D)
CallSpaceFromImage ==
    /\ Pending("spaceFromImage")
    /\ call' = [call EXCEPT !.op = "spaceFromImage"] @@
               [ret |-> spaceFromImage(TheCamera, call.points, call.X, call.Y, call.Z,
                                       call.D)]
    /\ UNCHANGED <<proj, orient, map, last_extent, last_scaling, built, group, fit>>

\* camera.getCameraCone()
CallGetCameraCone ==
    /\ Pending("getCameraCone")
    /\ call' = [op |-> "getCameraCone", ret |-> getCameraCone(TheCamera)]
    /\ UNCHANGED <<proj, orient, map, last_extent, last_scaling, built, group, fit>>

InitSpace ==
    /\ OneProjection(ProjInit("Rectilinear", StripArgs))
    /\ \E o \in Orientations : OneOrientation(o)
    /\ call \in CameraCalls
    /\ CacheEmpty /\ OneCameraGroup /\ NoFit

NextSpace == CallSpaceFromImage \/ CallGetCameraCone

SpecSpace == InitSpace /\ [][NextSpace]_vars

----------------------------------------------------------------------------
(* One camera over time: getMap calls and parameter writes                    *)

Extents ==
    { NoExtent,
      <<Zero, Int2Num(2), Zero, Int2Num(2)>>,
      <<Int2Num(-2), Int2Num(2), Int2Num(-2), Int2Num(2)>> }

Scalings == { None, One, Int2Num(2) }

CacheState == [map |-> map, last_extent |-> last_extent, last_scaling |-> last_scaling]

\* the cache after a getMap call that returned r; built keeps the extent (an
\* omitted one replaced) and the scaling argument of the call that built the table,
\* and the call records what the cache held when it was made
GetMapStep(r, extentArg, scalingArg) ==
    /\ map' = r.map
    /\ last_extent' = r.last_extent
    /\ last_scaling' = r.last_scaling
    /\ built' = IF r.hit THEN built ELSE [extent |-> r.last_extent, scaling |-> scalingArg]
    /\ call' = [op |-> "getMap", extentArg |-> extentArg, scalingArg |-> scalingArg,
                extent |-> r.last_extent, hit |-> r.hit,
                before |-> [exists |-> map # NoMap, key |-> built]]

\* camera.getMap(extent, scaling)
CallGetMap ==
    \E e \in Extents, s \in Scalings :
        /\ GetMapStep(getMap(TheCamera, CacheState, e, s), e, s)
        /\ UNCHANGED <<proj, orient, group, fit>>

\* camera.focallength_mm = v
WriteCameraIntrinsic ==
    \E v \in {Int2Num(2), Int2Num(4)} :
        /\ proj' = [proj EXCEPT !["P0"] = SetIntrinsic(@, "focallength_mm", v)]
        /\ call' = [op |-> "write", name |-> "focallength_mm"]
        /\ UNCHANGED <<orient, map, last_extent, last_scaling, built, group, fit>>

\* camera.elevation_m = v
WriteCameraExtrinsic ==
    \E v \in {Int2Num(2), Int2Num(4)} :
        /\ orient' = [orient EXCEPT !["O0"].elevation_m = v]
        /\ call' = [op |-> "write", name |-> "elevation_m"]
        /\ UNCHANGED <<proj, map, last_extent, last_scaling, built, group, fit>>

\* the files camera.load reads: saved from a camera of this shape, so they differ
\* from the camera only in the focal length and the elevation
SavedFiles == [focallength_mm : {Int2Num(2), Int2Num(4)}, elevation_m : {Int2Num(2), Int2Num(4)}]

\* camera.load(filename): every name of the file is written in turn
CallLoad ==
    \E variables \in SavedFiles :
        /\ proj' = [proj EXCEPT !["P0"] = SetIntrinsic(@, "focallength_mm",
                                                       variables.focallength_mm)]
        /\ orient' = [orient EXCEPT !["O0"].elevation_m = variables.elevation_m]
        /\ call' = [op |-> "load"]
        /\ UNCHANGED <<map, last_extent, last_scaling, built, group, fit>>

InitCamera ==
    /\ OneProjection(ProjInit("Rectilinear", StripArgs))
    /\ OneOrientation(DefaultOrientation)
    /\ call = [op |-> "construct"]
    /\ CacheEmpty /\ OneCameraGroup /\ NoFit

NextCamera == CallGetMap \/ WriteCameraIntrinsic \/ WriteCameraExtrinsic \/ CallLoad

SpecCamera == InitCamera /\ [][NextCamera]_vars

----------------------------------------------------------------------------
(* CameraGroup.intersectionOfTwoLines: the inputs are drawn, the call is made *)

Vec(x, y, z) == <<Int2Num(x), Int2Num(y), Int2Num(z)>>

\* points in which the lines are made to meet
MeetingPoints == { Vec(1, 1, 0), Vec(0, 2, 2), Vec(3, 1, 1) }

LinePoints1 == { Vec(0, 0, 0) }
LinePoints2 == { Vec(2, 0, 0), Vec(0, 3, 1) }

\* directions from a point to the meeting points, one of them also doubled, and
\* for the second line one direction parallel to a direction of the first
Directions1(p) == { SubVec(Q, p) : Q \in MeetingPoints } \cup { Vec(2, 2, 0) }
Directions2(p) == { SubVec(Q, p) : Q \in MeetingPoints } \cup { Vec(1, 1, 0) }

DirectionPairs(p1, p2) == Directions1(p1) \X Directions2(p2)

LineCalls ==
    UNION { [op : {"pending"}, fn : {"intersectionOfTwoLines"}, p1 : {p1}, p2 : {p2},
             batch : {TRUE}, pairs : SeqsUpTo(DirectionPairs(p1, p2), MaxBatch)]
            \cup
            [op : {"pending"}, fn : {"intersectionOfTwoLines"}, p1 : {p1}, p2 : {p2},
             batch : {FALSE}, pairs : [1..1 -> DirectionPairs(p1, p2)]]
          : p1 \in LinePoints1, p2 \in LinePoints2 }

Firsts(pairs) == [n \in 1..Len(pairs) |-> pairs[n][1]]
Seconds(pairs) == [n \in 1..Len(pairs) |-> pairs[n][2]]

AllRegular(c) ==
    \A n \in 1..Len(c.pairs) : Regular(c.p1, c.pairs[n][1], c.p2, c.pairs[n][2])

\* group.intersectionOfTwoLines(p1, v1, p2, v2), v1 and v2 one direction each or
\* arrays of directions; ret holds one row per pair of directions
CallIntersection ==
    /\ Pending("intersectionOfTwoLines")
    /\ AllRegular(call)
    /\ call' = [call EXCEPT !.op = "intersectionOfTwoLines"] @@
               [ret |-> IF call.batch
                        THEN intersectionOfTwoLinesBatch(call.p1, Firsts(call.pairs),
                                                         call.p2, Seconds(call.pairs))
                        ELSE <<intersectionOfTwoLines(call.p1, call.pairs[1][1],
                                                      call.p2, call.pairs[1][2])>>,
                raised |-> FALSE]
    /\ UNCHANGED <<proj, orient, map, last_extent, last_scaling, built, group, fit>>

\* np.linalg.solve raises LinAlgError on a singular system
CallIntersectionSingular ==
    /\ Pending("intersectionOfTwoLines")
    /\ ~AllRegular(call)
    /\ call' = [call EXCEPT !.op = "intersectionOfTwoLines"] @@
               [ret |-> <<>>, raised |-> TRUE]
    /\ UNCHANGED <<proj, orient, map, last_extent, last_scaling, built, group, fit>>

InitLines ==
    /\ OneProjection(ProjInit("Rectilinear", StripArgs))
    /\ OneOrientation(DefaultOrientation)
    /\ call \in LineCalls
    /\ CacheEmpty /\ OneCameraGroup /\ NoFit

NextLines == CallIntersection \/ CallIntersectionSingular

SpecLines == InitLines /\ [][NextLines]_vars

----------------------------------------------------------------------------
(* A camera group: construction, reads of the rig and writes through the      *)
(* joint parameter set                                                        *)

\* an axis is one shared instance or a list of up to MaxRig instances
Axes(prefix) == { Single(prefix \o "0") } \cup { ListOf(prefix, n) : n \in 0..MaxRig }

\* the orientations differ in their position, so the members can be told apart
OrientationAt(i) == [DefaultOrientation EXCEPT !.pos_x_m = Int2Num(i)]

WorldBatch == << Vec(0, 0, 0), Vec(1, 0, 0) >>

GroupCalls ==
    { [op |-> "construct"] }
    \cup [op : {"pending"}, fn : {"len", "iter", "imagesFromSpace"}]
    \cup [op : {"pending"}, fn : {"getitem"}, item : 0..(MaxRig - 1)]

\* len(group)
CallLen ==
    /\ Pending("len")
    /\ call' = [op |-> "len", ret |-> GroupLen(group)]
    /\ UNCHANGED <<proj, orient, map, last_extent, last_scaling, built, group, fit>>

\* group[item]
CallGetItem ==
    /\ Pending("getitem")
    /\ call.item < GroupLen(group)
    /\ call' = [op |-> "getitem", item |-> call.item, raised |-> FALSE,
                ret |-> GroupGetItem(group, call.item)]
    /\ UNCHANGED <<proj, orient, map, last_extent, last_scaling, built, group, fit>>

\* group[item] past the end of the rig: IndexError
CallGetItemPastEnd ==
    /\ Pending("getitem")
    /\ call.item >= GroupLen(group)
    /\ call' = [op |-> "getitem", item |-> call.item, raised |-> TRUE]
    /\ UNCHANGED <<proj, orient, map, last_extent, last_scaling, built, group, fit>>

\* list(iter(group))
CallIter ==
    /\ Pending("iter")
    /\ call' = [op |-> "iter", ret |-> group.cameras]
    /\ UNCHANGED <<proj, orient, map, last_extent, last_scaling, built, group, fit>>

\* group.imagesFromSpace(points)
CallImagesFromSpace ==
    /\ Pending("imagesFromSpace")
    /\ call' = [op |-> "imagesFromSpace", points |-> WorldBatch,
                ret |-> imagesFromSpace(group, WorldBatch)]
    /\ UNCHANGED <<proj, orient, map, last_extent, last_scaling, built, group, fit>>

\* the objects after a write
ObjectsBecome(s) == proj' = s.proj /\ orient' = s.orient

\* group.parameters.<name> = v, for the names of a focal length or an elevation
JointWrite ==
    \E i \in 1..Len(group.parameters) :
        /\ group.parameters[i].ref[2] \in {"focallength_mm", "elevation_m"}
        /\ ObjectsBecome(WriteRef(Objects, group.parameters[i].ref, Int2Num(4)))
        /\ call' = [op |-> "jointWrite", name |-> group.parameters[i].name,
                    v |-> Int2Num(4)]
        /\ UNCHANGED <<map, last_extent, last_scaling, built, group, fit>>

InitGroup ==
    /\ proj = [id \in ProjIds |-> ProjInit("Rectilinear", StripArgs)]
    /\ orient = [id \in OrientIds |->
                    OrientationAt(CHOOSE i \in 0..(MaxRig - 1) : id = "O" \o ToString(i))]
    /\ \E pAxis \in Axes("P"), oAxis \in Axes("O") : group = GroupInit(pAxis, oAxis)
    /\ call \in GroupCalls
    /\ CacheEmpty /\ NoFit

NextGroup ==
    \/ CallLen \/ CallGetItem \/ CallGetItemPastEnd \/ CallIter \/ CallImagesFromSpace
    \/ JointWrite

SpecGroup == InitGroup /\ [][NextGroup]_vars

----------------------------------------------------------------------------
(* Fits of a camera and of the group it is a member of                        *)

\* one shared projection and two orientations
InitFit ==
    /\ OneProjection(ProjInit("Rectilinear", StripArgs))
    /\ orient = [id \in {"O0", "O1"} |-> DefaultOrientation]
    /\ group = GroupInit(Single("P0"), ListOf("O", 2))
    /\ call = [op |-> "construct"]
    /\ CacheEmpty /\ NoFit

NextFit == FitBegin \/ FitCost \/ FitReturn

SpecFit == InitFit /\ [][NextFit]_vars

----------------------------------------------------------------------------
(* Claims on the projection                                                  *)

\* C2: the derived intrinsics of every projection are those of its current raw
\* intrinsics: mm_per_px = sensor_width_mm / image_width_px, focallength_px =
\* focallength_mm / mm_per_px, offset_x = image_width_px / 2 and offset_y =
\* image_height_px / 2, after construction (also from a field of view) and after
\* every write.  The raw intrinsics are positive.
DerivedNeverStale ==
    \A id \in DOMAIN proj :
        LET r == proj[id].raw
            d == proj[id].derived
        IN  /\ d.mm_per_px = Div(r.sensor_width_mm, r.image_width_px)
            /\ d.focallength_px = Div(r.focallength_mm, d.mm_per_px)
            /\ d.offset_x = Div(r.image_width_px, Two)
            /\ d.offset_y = Div(r.image_height_px, Two)

\* a write that changed the derived intrinsics
DerivedChangedByWrite ==
    /\ call.op = "write"
    /\ call.name = "image_height_px"
    /\ proj["P0"].derived # call.before

\* C5: imageFromCamera of every variant answers NaN in both image coordinates for
\* every row whose depth is non-negative or below 1e-10 in magnitude, answers
\* numbers for the other rows of the same batch, and leaves the caller's array as
\* it was.
BehindCameraIsNaN ==
    call.op = "imageFromCamera" =>
        /\ Len(call.ret) = Len(call.points)
        /\ \A i \in 1..Len(call.points) :
              IF IsBehind(call.points[i])
              THEN call.ret[i] = <<NaN, NaN>>
              ELSE ~IsNaN(call.ret[i][1]) /\ ~IsNaN(call.ret[i][2])
        /\ call.caller = call.points

\* a batch of a row just below the depth threshold and a row in front of the camera
BehindAndFrontInOneBatch ==
    /\ call.op = "imageFromCamera"
    /\ proj["P0"].variant = "Cylindrical"
    /\ Len(call.points) = 2
    /\ call.points[1][3] = Rat(-1, 1, -11)
    /\ call.ret[1] = <<NaN, NaN>>
    /\ ~IsBehind(call.points[2])
    /\ ~IsNaN(call.ret[2][1])

DefaultRaw ==
    [focallength_mm   |-> Int2Num(14),
     image_height_px  |-> Int2Num(3456),
     image_width_px   |-> Int2Num(4608),
     sensor_height_mm |-> Int2Num(13),
     sensor_width_mm  |-> Rat(173, 10, 0)]

\* the point on the optical axis of the default camera projects to the image centre
AxisPointAtCentre ==
    (call.op = "imageFromCamera" /\ proj["P0"].variant = "Rectilinear"
        /\ proj["P0"].raw = DefaultRaw) =>
        \A i \in 1..Len(call.points) :
            call.points[i] = Triple(Zero, Zero, Int2Num(-1000)) =>
                call.ret[i] = <<Int2Num(2304), Int2Num(1728)>>

\* C9 as stated: for the Rectilinear projection, every image point p and every
\* scale k > 0, imageFromCamera(k * getRay(p)) = p, the ray having z < 0; and the
\* axis point of the default camera projects to (2304, 1728).
RoundTripEveryScale ==
    /\ (call.op = "roundtrip" /\ proj["P0"].variant = "Rectilinear") =>
            (Lt(call.ray[3], Zero) /\ call.ret = call.p)
    /\ AxisPointAtCentre

\* C9 as amended: the same for every scale k > 0 whose scaled depth
\* k * focallength_px is not below the 1e-10 threshold of imageFromCamera.
RoundTripAboveThreshold ==
    /\ (call.op = "roundtrip" /\ proj["P0"].variant = "Rectilinear"
           /\ ~Lt(Mul(call.k, proj["P0"].derived.focallength_px), EPS)) =>
            (Lt(call.ray[3], Zero) /\ call.ret = call.p)
    /\ AxisPointAtCentre

\* a round trip through a small scale that is still above the threshold
RoundTripSmallScale ==
    /\ call.op = "roundtrip"
    /\ proj["P0"].variant = "Rectilinear"
    /\ call.k = Rat(1, 1, -10)
    /\ call.p = <<Int2Num(1), Int2Num(2)>>
    /\ call.ret = call.p

----------------------------------------------------------------------------
(* Claims on the camera                                                      *)

\* the key of a getMap call: its extent (an omitted one replaced by the bounding
\* box of the image border) and its scaling argument
KeyOfCall(c) == [extent |-> c.extent, scaling |-> c.scalingArg]

\* C1: every getMap call returns the cached table without rebuilding exactly when
\* a table exists and the call's extent and scaling arguments equal those of the
\* call that built it; every other call builds the table anew and replaces the
\* cached table and its key.
GetMapCacheRule ==
    call.op = "getMap" =>
        /\ call.hit <=> (call.before.exists /\ call.before.key = KeyOfCall(call))
        /\ call.hit => built = call.before.key
        /\ ~call.hit =>
              /\ map = BuildTable(TheCamera, call.extent,
                            EffectiveScaling(TheCamera, call.extent, call.scalingArg))
              /\ built = KeyOfCall(call)

\* the table a build would compute now, from the camera's current parameters, for
\* the extent and scaling of the getMap call just made
FreshTable ==
    BuildTable(TheCamera, call.extent,
               EffectiveScaling(TheCamera, call.extent, call.scalingArg))

\* C12: after any parameter writes, loads and getMap calls on one camera, the table
\* a getMap call returns is the table a fresh build computes from the camera's
\* current parameters for the call's extent and scaling.
GetMapTableIsCurrent == call.op = "getMap" => map = FreshTable

\* the axis spaceFromImage is to fix and the value it is fixed to
PlaneAxis == IF call.X # None THEN 1 ELSE IF call.Y # None THEN 2 ELSE 3
PlaneValue == <<call.X, call.Y, call.Z>>[PlaneAxis]

\* row i of a plane-mode call against the ray of its image point; the fixed
\* coordinate is compared for every ray, or only for rays that meet the plane
PlaneRowHolds(i, everyRay) ==
    LET ray    == CameraGetRay(TheCamera, call.points[i], FALSE)
        factor == Div(Sub(PlaneValue, ray.offset[PlaneAxis]), ray.direction[PlaneAxis])
        onRay  == AddVec(ray.offset, ScaleVec(ray.direction, factor))
    IN  /\ Le(Zero, factor) =>
              /\ call.ret[i] = onRay
              /\ (everyRay \/ ~IsZero(ray.direction[PlaneAxis])) =>
                    call.ret[i][PlaneAxis] = PlaneValue
        /\ Lt(factor, Zero) => call.ret[i] = <<NaN, NaN, NaN>>

\* C4 as stated: in plane mode the fixed axis is X, else Y, else Z; each row is
\* origin + factor * direction, its fixed coordinate equal to the fixed value, when
\* factor >= 0, and NaN on all axes when factor < 0.
PlaneModeAsStated ==
    (call.op = "spaceFromImage" /\ call.D = None) =>
        /\ Len(call.ret) = Len(call.points)
        /\ \A i \in 1..Len(call.points) : PlaneRowHolds(i, TRUE)

\* C4 as amended: the same, the fixed coordinate equal to the fixed value for the
\* rays whose direction has a non-zero component along the fixed axis.
PlaneModeOnRay ==
    (call.op = "spaceFromImage" /\ call.D = None) =>
        /\ Len(call.ret) = Len(call.points)
        /\ \A i \in 1..Len(call.points) : PlaneRowHolds(i, FALSE)

\* a batch with X and Y both given: one row on the plane X = 5, one row behind
PlaneModeBatch ==
    /\ call.op = "spaceFromImage"
    /\ call.D = None /\ call.X = Int2Num(5) /\ call.Y # None
    /\ Len(call.points) = 2
    /\ call.ret[1][1] = Int2Num(5)
    /\ call.ret[1][2] # Int2Num(3)
    /\ call.ret[2] = <<NaN, NaN, NaN>>

\* row i of a distance-mode call against the normed ray of its image point
DistanceRowHolds(i) ==
    LET ray == CameraGetRay(TheCamera, call.points[i], TRUE)
    IN  call.ret[i] = IF Lt(call.D, Zero) THEN <<NaN, NaN, NaN>>
                      ELSE AddVec(ScaleVec(ray.direction, call.D), ray.offset)

\* C11: in distance mode (D given) each row of the result is origin + D * direction
\* for the normed ray of its image point, whatever X, Y and Z are, and a negative
\* D makes every row NaN on all axes.
DistanceModeOnNormedRay ==
    (call.op = "spaceFromImage" /\ call.D # None) =>
        /\ Len(call.ret) = Len(call.points)
        /\ \A i \in 1..Len(call.points) : DistanceRowHolds(i)

\* a batch at distance 5 with X and Y given and Z not the default: two different
\* points, neither on the plane X = 5
DistanceModeBatch ==
    /\ call.op = "spaceFromImage"
    /\ call.D = Int2Num(5) /\ call.X = Int2Num(5) /\ call.Y # None /\ call.Z = One
    /\ Len(call.points) = 2
    /\ call.ret[1] # call.ret[2]
    /\ \A i \in 1..2 : call.ret[i] # <<NaN, NaN, NaN>> /\ call.ret[i][1] # Int2Num(5)

\* the ground points of the four image corners (0,0), (0,h), (w,h), (w,0)
ConeCorners ==
    LET w == proj["P0"].raw.image_width_px
        h == proj["P0"].raw.image_height_px
    IN  spaceFromImage(TheCamera, <<<<Zero, Zero>>, <<Zero, h>>, <<w, h>>, <<w, Zero>>>>,
                       None, None, Zero, None)

\* C8: the cone is the ground image of the 2(w+h) border pixels in border order,
\* followed by exactly four segments, one per image corner: a NaN row, the camera's
\* origin and the ground point of that corner; no segment ends in a NaN row unless
\* the corner itself has no ground point.
ConeShape ==
    call.op = "getCameraCone" =>
        LET n == 2 * (NumToInt(proj["P0"].raw.image_width_px)
                      + NumToInt(proj["P0"].raw.image_height_px))
        IN  /\ Len(call.ret) = n + 12
            /\ SubSeq(call.ret, 1, n) = getImageBorder(TheCamera)
            /\ \A j \in 1..4 :
                  /\ call.ret[n + 3 * j - 2] = <<NaN, NaN, NaN>>
                  /\ call.ret[n + 3 * j - 1] = Position(orient["O0"])
                  /\ call.ret[n + 3 * j] = ConeCorners[j]

----------------------------------------------------------------------------
(* Claims on the camera group                                                *)

\* Q lies on the line through p with direction v
OnLine(Q, p, v) == Cross(SubVec(Q, p), v) = <<Zero, Zero, Zero>>

\* C10: for non-parallel directions whose lines meet in a point Q the call returns
\* Q, and every row of a batched call is what the call on that row's pair alone
\* returns.
IntersectionIsMeetingPoint ==
    (call.op = "intersectionOfTwoLines" /\ ~call.raised) =>
        /\ Len(call.ret) = Len(call.pairs)
        /\ \A n \in 1..Len(call.pairs) :
              /\ \A Q \in MeetingPoints :
                    (OnLine(Q, call.p1, call.pairs[n][1])
                        /\ OnLine(Q, call.p2, call.pairs[n][2])) => call.ret[n] = Q
              /\ call.ret[n] = intersectionOfTwoLines(call.p1, call.pairs[n][1],
                                                      call.p2, call.pairs[n][2])

\* a batch of two pairs of lines that meet in two different points
TwoMeetingPointsInOneBatch ==
    /\ call.op = "intersectionOfTwoLines"
    /\ call.batch /\ ~call.raised
    /\ Len(call.pairs) = 2
    /\ call.ret[1] = Vec(1, 1, 0)
    /\ call.ret[2] = Vec(3, 1, 1)
    /\ OnLine(call.ret[1], call.p1, call.pairs[1][1])
    /\ OnLine(call.ret[1], call.p2, call.pairs[1][2])
    /\ OnLine(call.ret[2], call.p1, call.pairs[2][1])
    /\ OnLine(call.ret[2], call.p2, call.pairs[2][2])

\* the parameter object an axis gives the joint set under a name, element i of a
\* list axis under "C<i>_<name>" (i counted from 0), a shared instance unprefixed
AxisNamespaced(axis, names) ==
    \A k \in 1..Len(names) :
        IF axis.single
        THEN /\ DictHas(group.parameters, names[k])
             /\ DictGet(group.parameters, names[k]) = <<axis.items[1], names[k]>>
        ELSE \A i \in 1..Len(axis.items) :
                LET joint == "C" \o ToString(i - 1) \o "_" \o names[k]
                IN  /\ DictHas(group.parameters, joint)
                    /\ DictGet(group.parameters, joint) = <<axis.items[i], names[k]>>

\* the members that own the parameter object ref
OwnersOf(ref) ==
    {i \in 1..Len(group.cameras) :
        ref[1] \in {group.cameras[i].projection, group.cameras[i].orientation}}

\* C6: the joint set holds each parameter of element i of a list axis under
\* "C<i>_<name>" and each parameter of a shared axis under its own name, all names
\* distinct, each entry the member's own parameter object: a value written through
\* the joint set is read by the member camera that owns the parameter.
JointNamesAreNamespaced ==
    /\ AxisNamespaced(group.projection_list, IntrinsicNames)
    /\ AxisNamespaced(group.orientation_list, ExtrinsicNames)
    /\ Cardinality(DictNames(group.parameters)) = Len(group.parameters)
    /\ call.op = "jointWrite" =>
          LET ref == DictGet(group.parameters, call.name)
          IN  \A i \in OwnersOf(ref) :
                LET cam == MemberCam(group.cameras[i])
                IN  IF ref[2] \in DOMAIN cam.orientation
                    THEN cam.orientation[ref[2]] = call.v
                    ELSE /\ cam.projection.raw[ref[2]] = call.v
                         /\ cam.projection.derived
                              = initIntrinsicMatrix(cam.projection.raw, ClassDerived)

\* a write through a prefixed name that the second member of the rig reads
SecondMemberReadsJointWrite ==
    /\ call.op = "jointWrite"
    /\ call.name = "C1_elevation_m"
    /\ Len(group.cameras) = 2
    /\ MemberCam(group.cameras[2]).orientation.elevation_m = Int2Num(4)
    /\ MemberCam(group.cameras[1]).orientation.elevation_m = Int2Num(2)

\* the lists among the two axes
ListAxes == {a \in {group.projection_list, group.orientation_list} : ~a.single}

\* member i as the claim composes it
ComposedMember(i) ==
    [projection  |-> IF group.projection_list.single THEN group.projection_list.items[1]
                     ELSE group.projection_list.items[i],
     orientation |-> IF group.orientation_list.single THEN group.orientation_list.items[1]
                     ELSE group.orientation_list.items[i]]

\* the rig of a group: one camera per list element, composed element by element,
\* read in that order by len, indexing, iteration and imagesFromSpace, and the
\* joint set holding the parameters of the members and no others
RigIsComposed ==
    /\ \A a \in ListAxes : Len(group.cameras) = Len(a.items)
    /\ \A i \in 1..Len(group.cameras) : group.cameras[i] = ComposedMember(i)
    /\ call.op = "len" => call.ret = Len(group.cameras)
    /\ (call.op = "getitem" /\ ~call.raised) => call.ret = ComposedMember(call.item + 1)
    /\ call.op = "iter" => call.ret = [i \in 1..Len(group.cameras) |-> ComposedMember(i)]
    /\ call.op = "imagesFromSpace" =>
          /\ Len(call.ret) = Len(group.cameras)
          /\ \A i \in 1..Len(group.cameras) : \A j \in 1..Len(call.points) :
                call.ret[i][j] = imageFromSpace(MemberCam(ComposedMember(i)), call.points[j])
    /\ DictRefs(group.parameters)
          = UNION {DictRefs(CameraParameters(group.cameras[i])) : i \in 1..Len(group.cameras)}

\* the axes fit together: two lists have the same length, and a list next to a
\* shared instance is not empty
AxesMatch ==
    /\ \A a, b \in ListAxes : Len(a.items) = Len(b.items)
    /\ \A a \in ListAxes : (Cardinality(ListAxes) = 1) => Len(a.items) > 0

\* C7 as stated: the rig is composed as described for any two axes.
RigComposedForAnyAxes == RigIsComposed

\* C7 as amended: the rig is composed as described when the axes fit together.
RigComposedForMatchingAxes == AxesMatch => RigIsComposed

\* two lists of two: imagesFromSpace answers with one result per member, in order
TwoMembersProjected ==
    /\ call.op = "imagesFromSpace"
    /\ ~group.projection_list.single /\ ~group.orientation_list.single
    /\ Len(group.cameras) = 2
    /\ Len(call.ret) = 2
    /\ call.ret[1] # call.ret[2]

----------------------------------------------------------------------------
(* Claims on fitting                                                         *)

\* C3: every call of the cost function is made with no argument, right after the
\* candidate was written into the fit-tagged parameters in the order of the names
\* the bounds and estimates were read in; when fit has returned, those parameters
\* hold the vector the optimizer returned.
FitWritesThenCalls ==
    LET params == FitParameters(fit.owner)
    IN  /\ fit.pc # "idle" =>
              /\ fit.names = get_fit_parameters(params)
              /\ fit.ranges = [i \in 1..Len(fit.names) |->
                                  RangeOf(DictGet(params, fit.names[i]))]
              /\ fit.estimates = [i \in 1..Len(fit.names) |->
                                  DefaultOf(DictGet(params, fit.names[i]))]
        /\ fit.last # <<>> => (fit.costArgs = 0 /\ fit.seen = fit.last)
        /\ (fit.pc = "minimize" /\ fit.last # <<>>) =>
              ReadNames(Objects, params, fit.names) = fit.last
        /\ fit.pc = "done" => ReadNames(Objects, params, fit.names) = fit.x

\* a fit of the group that returned a vector other than the last one it tried
BestIsNotLastTried ==
    /\ fit.pc = "done"
    /\ fit.owner = "CameraGroup"
    /\ fit.x # fit.last
    /\ Len(fit.x) = 3

====
